---- MODULE Spec2Model ----
(***************************************************************************)
(* One call of plot_circos (src/plot_circos_cancer_drivers.py) or of       *)
(* plot_circos_hla (src/plot_circos_hla.py), as a sequence of steps:       *)
(* read the table, build the sectors, ring A, ring B, ring C, the ring     *)
(* glyphs, the legends, plotfig, savefig.                                  *)
(*                                                                         *)
(* A table is a sequence of rows [cat, val]: cat is the cell of the        *)
(* category column (track_1_data), val the cell of the numeric column the  *)
(* axis is computed from (track_2_data of plot_circos, track_3_data of     *)
(* plot_circos_hla).  Category values are numbered by first appearance     *)
(* (1, 2, ...); NaN is a missing category cell, which pandas reads as NaN. *)
(* Lengths are in hundredths of a sector unit (0.8 is 80, 0.65 is 65).     *)
(***************************************************************************)
EXTENDS Integers, Sequences, FiniteSets

VARIABLES
    fn,              \* "drivers" (plot_circos) or "hla" (plot_circos_hla)
    df,              \* the rows of the file
    palN,            \* number of colours of the palette set_cmap selects
    pal_start,       \* bar_pal_start (plot_circos) / pal_start (plot_circos_hla)
    hmap_pal_start,  \* hmap_pal_start (plot_circos)
    pc,              \* the step the call is at
    failure,         \* the exception that ended the call, "" if none
    sectors,         \* circos.sectors: sequence of [name, size]
    i,               \* sectors already visited by the running ring loop
    col_1, col_2, col_3, col_pal,   \* the palette cursors
    tracks,          \* every track added so far, in order of creation
    trackVar,        \* the loop variables track1, track2, track3, track
    glyphs,          \* the ring-label glyphs emitted so far
    rounded,         \* rounded_max_value (plot_circos) / vmin (plot_circos_hla)
    yaxis,           \* the last yticks call: <<>> or <<[ticks, labels, vmin, vmax]>>
    legends,         \* legend and title texts put by circos.text
    files            \* number of times the output file was written

inputs == <<fn, df, palN, pal_start, hmap_pal_start>>
cursors == <<col_1, col_2, col_3, col_pal>>
vars == <<fn, df, palN, pal_start, hmap_pal_start, pc, failure, sectors,
          i, col_1, col_2, col_3, col_pal, tracks, trackVar, glyphs, rounded,
          yaxis, legends, files>>

---------------------------------------------------------------------------
(* Bounds of the model. *)
MaxRows == 3
MaxAbsVal == 21
MaxColLen == 2

\* A missing category cell.
NaN == 0
\* Cells of the numeric column: below -10, between -10 and 0, above 0.
Values == {-12, -3, 5}
\* Colours of the palette: 12 is Set3, the default; 2 is a palette with fewer
\* colours than the table has categories.
PaletteSizes == {2, 12}
\* bar_pal_start / pal_start: 2 is plot_circos' default.
PalStarts == {-1, 2}
\* hmap_pal_start: -1 is the default.
HmapStarts == {-3, -1, 5}

Fns == {"drivers", "hla"}

---------------------------------------------------------------------------
(* Helpers. *)
Max(S) == CHOOSE x \in S : \A y \in S : y <= x
Min(S) == CHOOSE x \in S : \A y \in S : x <= y
Range(s) == {s[k] : k \in DOMAIN s}

\* Category cells are numbered by first appearance.
FirstSeenNumbered(t) ==
    \A k \in DOMAIN t :
        t[k].cat # NaN =>
            t[k].cat <= 1 + Max({0} \cup {t[j].cat : j \in 1..(k - 1)})

---------------------------------------------------------------------------
(* pandas: df[track_1_data].value_counts().to_dict() *)

\* value_counts(dropna=False): a missing cell counted as a category.
CategoryValuesKeepNaN(t) == {t[k].cat : k \in DOMAIN t}
\* value_counts() drops missing cells (dropna=True is its default).
CategoryValues(t) == {t[k].cat : k \in DOMAIN t} \ {NaN}

Count(t, c) == Cardinality({k \in DOMAIN t : t[k].cat = c})

\* The position of the first row holding category c.
FirstRow(t, c) == Min({k \in DOMAIN t : t[k].cat = c})

\* No sorting: the categories in the order of their first row.
FirstSeenOrders(t) ==
    LET cs == CategoryValues(t)
        n == Cardinality(cs)
    IN {s \in [1..n -> cs] :
            \A a, b \in 1..n : a < b => FirstRow(t, s[a]) < FirstRow(t, s[b])}
\* value_counts() counts the categories in the order of their first row and
\* then sorts them by count, largest first (sort=True, ascending=False are its
\* defaults); categories of equal count stay in the order of their first row.
SectorOrders(t) ==
    LET cs == CategoryValues(t)
        n == Cardinality(cs)
    IN {s \in [1..n -> cs] :
            /\ \A a, b \in 1..n : a # b => s[a] # s[b]
            /\ \A a, b \in 1..n : a < b =>
                  \/ Count(t, s[a]) > Count(t, s[b])
                  \/ /\ Count(t, s[a]) = Count(t, s[b])
                     /\ FirstRow(t, s[a]) < FirstRow(t, s[b])}

\* The dict {name: count} in value_counts' order; Circos keeps one sector per
\* key, in that order, sized by its count.
MakeSectors(t, order) ==
    [k \in DOMAIN order |-> [name |-> order[k], size |-> Count(t, order[k])]]

\* df[df[track_1_data] == sector.name]: NaN equals nothing.
Filter(t, name) == SelectSeq(t, LAMBDA r : r.cat # NaN /\ r.cat = name)
ColumnValues(t) == [k \in DOMAIN t |-> t[k].val]

---------------------------------------------------------------------------
(* numpy: max/min, ceil/floor, arange; Python: list indexing *)

CeilDiv(a, b) == -((-a) \div b)
FloorDiv(a, b) == a \div b

RoundedMaxFloor(col) == FloorDiv(Max(Range(col)), 10) * 10
\* np.ceil(np.max(df[track_2_data]) / 10) * 10
RoundedMax(col) == CeilDiv(Max(Range(col)), 10) * 10

RoundedMinCeil(col) == CeilDiv(Min(Range(col)), 10) * 10
\* np.floor(np.min(df[track_3_data]) / 10) * 10
RoundedMin(col) == FloorDiv(Min(Range(col)), 10) * 10

\* np.arange(start, stop, step) for step # 0: ceil((stop - start) / step)
\* values start, start + step, ...
ArangeLen(start, stop, step) ==
    IF step > 0
    THEN (IF stop > start THEN CeilDiv(stop - start, step) ELSE 0)
    ELSE (IF stop < start THEN CeilDiv(start - stop, -step) ELSE 0)
Arange(start, stop, step) ==
    [k \in 1..ArangeLen(start, stop, step) |-> start + (k - 1) * step]

\* The axis bounds are multiples of ten, so half of one is a whole number.
Half(v) == v \div 2

\* [0, vmax2 / 2, vmax2]
DriverTicks(vmax2) == <<0, Half(vmax2), vmax2>>
\* [str(int(value)) for value in np.arange(0, vmax2 + 1, vmax2 / 2)]; the
\* values are whole numbers, which str(int(.)) maps one to one, so a label
\* is written as the number it spells.
DriverLabels(vmax2) == Arange(0, vmax2 + 1, Half(vmax2))

\* [vmax, vmin / 2, vmin] with vmax = 0
HlaTicks(vmin) == <<0, Half(vmin), vmin>>
HlaLabelsStopAbove(vmin) == Arange(0, vmin + 1, Half(vmin))
\* [str(int(value)) for value in np.arange(0, vmin - 1, vmin / 2)]
HlaLabels(vmin) == Arange(0, vmin - 1, Half(vmin))

pal_list == <<"Reds", "Greens", "YlOrBr", "Blues", "Reds", "Purples", "Greys">>
\* Python's list[k]: k in -len..len-1, a negative k counting from the end;
\* any other k raises IndexError.
PyIndexOK(list, k) == -Len(list) <= k /\ k <= Len(list) - 1
PyIndex(list, k) == IF k >= 0 THEN list[k + 1] ELSE list[Len(list) + k + 1]

---------------------------------------------------------------------------
(* pycirclize *)

\* ColorCycler(n): colour n modulo the palette's size, of the active palette.
ColorCycler(n) == n % palN

StayCursor(c) == c
\* col = col + 1
NextCursor(c) == c + 1

\* A cursor re-seeded one past the start offset.
SeedCol2Shifted == pal_start + 1
\* col_2 = bar_pal_start / col_2 = pal_start
SeedCol2 == pal_start

TrackStart(t) == 0
\* track.end: the sector's end coordinate, its size.
TrackEnd(t) == t.size * 100

\* x = track.end + 0.8 (plot_circos), track.end + 0.65 (plot_circos_hla)
GlyphOffset(f) == IF f = "drivers" THEN 80 ELSE 65
\* <track>.text(text=..., x=<track>.end + offset, r=...)
Glyph(text, t, r) ==
    [text |-> text, ring |-> t.ring, sector |-> t.sector, pos |-> t.pos,
     x |-> TrackEnd(t) + GlyphOffset(fn), r |-> r]

\* sector.add_track(...) and what the loop body draws on it.
\* col is the cursor's value in that iteration; color the ColorCycler colour
\* drawn with (-1: none); cmap the heatmap's colour scale ("": none); nrows the
\* number of rows filtered for the sector (-1: the ring filters nothing).
Track(ring, k, cursor, color, cmap, nrows) ==
    [ring |-> ring, pos |-> k, sector |-> sectors[k].name,
     size |-> sectors[k].size, col |-> cursor, color |-> color,
     cmap |-> cmap, nrows |-> nrows]

\* The renderer checks what it is given: as many labels as ticks, and ticks
\* and bar heights within [vmin, vmax].
RendererAccepts(ticks, labels, y, vmin, vmax) ==
    /\ Len(ticks) = Len(labels)
    /\ \A v \in Range(ticks) \cup Range(y) : vmin <= v /\ v <= vmax

---------------------------------------------------------------------------
(* The call *)

Rows == [cat : 0..MaxRows, val : Values]
Tables == UNION {[1..n -> Rows] : n \in 0..MaxRows}
Unbound == [v \in {"track1", "track2", "track3", "track"} |-> <<>>]

Start ==
    /\ pc = "read"
    /\ failure = ""
    /\ sectors = <<>>
    /\ i = 0
    /\ col_1 = 0 /\ col_2 = 0 /\ col_3 = 0 /\ col_pal = 0
    /\ tracks = <<>>
    /\ trackVar = Unbound
    /\ glyphs = <<>>
    /\ rounded = 0
    /\ yaxis = <<>>
    /\ legends = <<>>
    /\ files = 0

Init ==
    /\ fn \in Fns
    /\ df \in Tables
    /\ FirstSeenNumbered(df)
    /\ palN \in PaletteSizes
    /\ pal_start \in PalStarts
    /\ hmap_pal_start \in (IF fn = "drivers" THEN HmapStarts ELSE {-1})
    /\ Start

\* An exception leaves the call; nothing after it runs.
Raise(e) ==
    /\ pc' = "failed"
    /\ failure' = e
    /\ UNCHANGED <<inputs, sectors, i, cursors, tracks, trackVar, glyphs,
                   rounded, yaxis, legends, files>>

\* df = pd.read_csv(file_path, sep='\t', header=0)
ReadCsv ==
    /\ pc = "read"
    /\ \/ Raise("FileNotFoundError")
       \/ /\ pc' = "sectors"
          /\ UNCHANGED <<inputs, failure, sectors, i, cursors, tracks, trackVar,
                         glyphs, rounded, yaxis, legends, files>>

\* sectors = df[track_1_data].value_counts().to_dict()
BuildSectors ==
    /\ pc = "sectors"
    /\ \/ Raise("KeyError")      \* the file has no track_1_data column
       \/ \E order \in SectorOrders(df) :
            /\ sectors' = MakeSectors(df, order)
            /\ pc' = "layout"
            /\ UNCHANGED <<inputs, failure, i, cursors, tracks, trackVar, glyphs,
                           rounded, yaxis, legends, files>>

\* circos = Circos(sectors, space=7, ...); ColorCycler.set_cmap(palette);
\* col_1 = bar_pal_start
Layout ==
    /\ pc = "layout"
    /\ \/ /\ col_1' = pal_start
          /\ i' = 0
          /\ pc' = "ringA"
          /\ UNCHANGED <<inputs, failure, sectors, col_2, col_3, col_pal, tracks,
                         trackVar, glyphs, rounded, yaxis, legends, files>>
       \* Whether the layout engine takes an empty mapping is its own
       \* decision: both outcomes are admitted.
       \/ /\ sectors = <<>>
          /\ Raise("ValueError")

\* Ring A, one sector: col_1 = col_1 + 1; track1 = sector.add_track(...);
\* track1.axis(fc=ColorCycler(col_1), ...); track1.text(sector.name, ...)
RingA ==
    /\ pc = "ringA"
    /\ i < Len(sectors)
    /\ LET c == NextCursor(col_1)
           t == Track("A", i + 1, c, ColorCycler(c), "", -1)
       IN /\ col_1' = c
          /\ tracks' = Append(tracks, t)
          /\ trackVar' = [trackVar EXCEPT !["track1"] = <<t>>]
    /\ i' = i + 1
    /\ UNCHANGED <<inputs, pc, failure, sectors, col_2, col_3, col_pal, glyphs,
                   rounded, yaxis, legends, files>>

\* track1.text(text='A', x=track1.end + ..., r=96), after the loop; then
\* (plot_circos_hla) col_3 = pal_start
GlyphA ==
    /\ pc = "ringA"
    /\ i = Len(sectors)
    /\ IF trackVar["track1"] = <<>>
       THEN Raise("UnboundLocalError")
       ELSE /\ glyphs' = Append(glyphs, Glyph("A", trackVar["track1"][1], 96))
            /\ pc' = IF fn = "drivers" THEN "axis" ELSE "ringB"
            /\ col_3' = IF fn = "drivers" THEN col_3 ELSE pal_start
            /\ i' = 0
            /\ UNCHANGED <<inputs, failure, sectors, col_1, col_2, col_pal,
                           tracks, trackVar, rounded, yaxis, legends, files>>

\* plot_circos: max_value = np.max(df[track_2_data]); rounded_max_value =
\* np.ceil(max_value / 10) * 10; col_2 = bar_pal_start
ComputeMax ==
    /\ pc = "axis"
    /\ fn = "drivers"
    /\ \/ Raise("KeyError")      \* the file has no track_2_data column
       \/ IF df = <<>>
          THEN Raise("ValueError")
          ELSE /\ rounded' = RoundedMax(ColumnValues(df))
               /\ col_2' = SeedCol2
               /\ i' = 0
               /\ pc' = "ringB"
               /\ UNCHANGED <<inputs, failure, sectors, col_1, col_3, col_pal,
                              tracks, trackVar, glyphs, yaxis, legends, files>>

\* plot_circos_hla: min_value = np.min(df[track_3_data]); vmin =
\* np.floor(min_value / 10) * 10; vmax = 0; col_2 = pal_start
ComputeMin ==
    /\ pc = "axis"
    /\ fn = "hla"
    /\ \/ Raise("KeyError")      \* the file has no track_3_data column
       \/ IF df = <<>>
          THEN Raise("ValueError")
          ELSE /\ rounded' = RoundedMin(ColumnValues(df))
               /\ col_2' = SeedCol2
               /\ i' = 0
               /\ pc' = "ringC"
               /\ UNCHANGED <<inputs, failure, sectors, col_1, col_3, col_pal,
                              tracks, trackVar, glyphs, yaxis, legends, files>>

\* plot_circos ring B, one sector: col_2 = col_2 + 1; track2 = add_track;
\* the rows of the sector; xticks labelled from 'query'; yticks; grid; bar
DriversRingB ==
    /\ pc = "ringB"
    /\ fn = "drivers"
    /\ i < Len(sectors)
    /\ LET c == NextCursor(col_2)
           rows == Filter(df, sectors[i + 1].name)
           t == Track("B", i + 1, c, ColorCycler(c), "", Len(rows))
           ticks == DriverTicks(rounded)
           labels == DriverLabels(rounded)
       IN \/ /\ i = 0
             /\ Raise("KeyError")      \* the file has no query column
          \/ IF Half(rounded) = 0
             \* np.arange cannot compute a length for a step of 0
             THEN Raise("ValueError")
             ELSE
               \/ /\ col_2' = c
                  /\ tracks' = Append(tracks, t)
                  /\ trackVar' = [trackVar EXCEPT !["track2"] = <<t>>]
                  /\ yaxis' = <<[ticks |-> ticks, labels |-> labels,
                                 vmin |-> 0, vmax |-> rounded]>>
                  /\ i' = i + 1
                  /\ UNCHANGED <<inputs, pc, failure, sectors, col_1, col_3,
                                 col_pal, glyphs, rounded, legends, files>>
               \* Whether the renderer rejects what fails its checks is its
               \* own decision: both outcomes are admitted.
               \/ /\ ~RendererAccepts(ticks, labels, ColumnValues(rows), 0, rounded)
                  /\ Raise("ValueError")

\* plot_circos_hla ring B, one sector: track1 = add_track; the rows of the
\* sector; length_list from track_2_data; col_3 = col_3 + 1; one rectangle and
\* one text per unit of the track
HlaRingB ==
    /\ pc = "ringB"
    /\ fn = "hla"
    /\ i < Len(sectors)
    /\ LET c == NextCursor(col_3)
           rows == Filter(df, sectors[i + 1].name)
           t == Track("B", i + 1, c, ColorCycler(c), "", Len(rows))
       IN \/ /\ i = 0
             /\ Raise("KeyError")      \* the file has no track_2_data column
          \/ IF Len(rows) < sectors[i + 1].size
             THEN Raise("IndexError")
             ELSE /\ col_3' = c
                  /\ tracks' = Append(tracks, t)
                  /\ trackVar' = [trackVar EXCEPT !["track1"] = <<t>>]
                  /\ i' = i + 1
                  /\ UNCHANGED <<inputs, pc, failure, sectors, col_1, col_2,
                                 col_pal, glyphs, rounded, yaxis, legends, files>>

\* The variable the ring-B loop leaves its last track in.
RingBVar == IF fn = "drivers" THEN "track2" ELSE "track1"

\* <track>.text(text='B', x=<track>.end + ..., r=68 / r=86), after the loop;
\* then (plot_circos) col_pal = hmap_pal_start
GlyphB ==
    /\ pc = "ringB"
    /\ i = Len(sectors)
    /\ IF trackVar[RingBVar] = <<>>
       THEN Raise("UnboundLocalError")
       ELSE /\ glyphs' = Append(glyphs,
                 Glyph("B", trackVar[RingBVar][1], IF fn = "drivers" THEN 68 ELSE 86))
            /\ pc' = IF fn = "drivers" THEN "ringC" ELSE "axis"
            /\ col_pal' = IF fn = "drivers" THEN hmap_pal_start ELSE col_pal
            /\ i' = 0
            /\ UNCHANGED <<inputs, failure, sectors, col_1, col_2, col_3, tracks,
                           trackVar, rounded, yaxis, legends, files>>

\* plot_circos ring C, one sector: col_pal = col_pal + 1; track3 = add_track;
\* the rows of the sector; data from 'driver'; heatmap(cmap=pal_list[col_pal])
DriversRingC ==
    /\ pc = "ringC"
    /\ fn = "drivers"
    /\ i < Len(sectors)
    /\ LET c == NextCursor(col_pal)
           rows == Filter(df, sectors[i + 1].name)
       IN \/ /\ i = 0
             /\ Raise("KeyError")      \* the file has no driver column
          \/ IF ~PyIndexOK(pal_list, c)
             THEN Raise("IndexError")
             ELSE LET t == Track("C", i + 1, c, -1, PyIndex(pal_list, c), Len(rows))
                  IN /\ col_pal' = c
                     /\ tracks' = Append(tracks, t)
                     /\ trackVar' = [trackVar EXCEPT !["track3"] = <<t>>]
                     /\ i' = i + 1
                     /\ UNCHANGED <<inputs, pc, failure, sectors, col_1, col_2,
                                    col_3, glyphs, rounded, yaxis, legends, files>>

\* plot_circos_hla ring C, one sector: track = add_track; col_2 = col_2 + 1;
\* the rows of the sector; xticks labelled from track_3_labels; yticks; grid;
\* bar
HlaRingC ==
    /\ pc = "ringC"
    /\ fn = "hla"
    /\ i < Len(sectors)
    /\ LET c == NextCursor(col_2)
           rows == Filter(df, sectors[i + 1].name)
           t == Track("C", i + 1, c, ColorCycler(c), "", Len(rows))
           ticks == HlaTicks(rounded)
           labels == HlaLabels(rounded)
       IN \/ /\ i = 0
             /\ Raise("KeyError")      \* the file has no track_3_labels column
          \/ IF Half(rounded) = 0
             \* np.arange cannot compute a length for a step of 0
             THEN Raise("ValueError")
             ELSE
               \/ /\ col_2' = c
                  /\ tracks' = Append(tracks, t)
                  /\ trackVar' = [trackVar EXCEPT !["track"] = <<t>>]
                  /\ yaxis' = <<[ticks |-> ticks, labels |-> labels,
                                 vmin |-> rounded, vmax |-> 0]>>
                  /\ i' = i + 1
                  /\ UNCHANGED <<inputs, pc, failure, sectors, col_1, col_3,
                                 col_pal, glyphs, rounded, legends, files>>
               \* Whether the renderer rejects what fails its checks is its
               \* own decision: both outcomes are admitted.
               \/ /\ ~RendererAccepts(ticks, labels, ColumnValues(rows), rounded, 0)
                  /\ Raise("ValueError")

\* The variable the ring-C loop leaves its last track in.
RingCVar == IF fn = "drivers" THEN "track3" ELSE "track"

\* plot_circos: track3.text(text='C', x=track3.end + 0.8, r=45);
\* plot_circos_hla: track.text(text='C', ..., r=72) and
\* track.text(text='D', x=track.end + 0.65, r=58)
GlyphC ==
    /\ pc = "ringC"
    /\ i = Len(sectors)
    /\ IF trackVar[RingCVar] = <<>>
       THEN Raise("UnboundLocalError")
       ELSE /\ glyphs' =
                 IF fn = "drivers"
                 THEN Append(glyphs, Glyph("C", trackVar["track3"][1], 45))
                 ELSE glyphs \o <<Glyph("C", trackVar["track"][1], 72),
                                  Glyph("D", trackVar["track"][1], 58)>>
            /\ pc' = "legends"
            /\ UNCHANGED <<inputs, failure, sectors, i, cursors, tracks, trackVar,
                           rounded, yaxis, legends, files>>

\* The circos.text(...) calls
Legends ==
    /\ pc = "legends"
    /\ legends' =
         IF fn = "drivers"
         THEN <<"A: Cancer type", "track_2_label", "C: Driver gene status",
                "plot_title">>
         ELSE <<"A: HLA", "B: Length", "C: Peptide",
                "D: HLA arena binding energy">>
    /\ pc' = "plot"
    /\ UNCHANGED <<inputs, failure, sectors, i, cursors, tracks, trackVar, glyphs,
                   rounded, yaxis, files>>

\* fig = circos.plotfig()
PlotFig ==
    /\ pc = "plot"
    /\ pc' = "save"
    /\ UNCHANGED <<inputs, failure, sectors, i, cursors, tracks, trackVar, glyphs,
                   rounded, yaxis, legends, files>>

\* A savefig inside the ring-C loop.
SaveFigInLoop ==
    /\ pc = "ringC"
    /\ files < 2
    /\ files' = files + 1
    /\ UNCHANGED <<inputs, pc, failure, sectors, i, cursors, tracks, trackVar,
                   glyphs, rounded, yaxis, legends>>
\* fig.savefig(file_name, format='pdf', dpi=300)
SaveFig ==
    /\ pc = "save"
    /\ files' = files + 1
    /\ pc' = "done"
    /\ UNCHANGED <<inputs, failure, sectors, i, cursors, tracks, trackVar, glyphs,
                   rounded, yaxis, legends>>

Next ==
    \/ ReadCsv
    \/ BuildSectors
    \/ Layout
    \/ RingA
    \/ GlyphA
    \/ ComputeMax
    \/ ComputeMin
    \/ DriversRingB
    \/ HlaRingB
    \/ GlyphB
    \/ DriversRingC
    \/ HlaRingC
    \/ GlyphC
    \/ Legends
    \/ PlotFig
    \/ SaveFig

Spec == Init /\ [][Next]_vars

---------------------------------------------------------------------------
(* The axis computations on their own: a call that has reached the step     *)
(* computing the axis bound, on a one-category table whose numeric column   *)
(* ranges over -MaxAbsVal..MaxAbsVal, with the default start offsets and    *)
(* palette; then the bound and the first sector's y axis.                   *)

AxisTables ==
    UNION {[1..n -> [cat : {1}, val : -MaxAbsVal..MaxAbsVal]] : n \in 1..MaxColLen}

InitAxis ==
    /\ fn \in Fns
    /\ df \in AxisTables
    /\ palN = 12
    /\ pal_start = (IF fn = "drivers" THEN 2 ELSE 0)
    /\ hmap_pal_start = -1
    /\ pc = "axis"
    /\ failure = ""
    /\ sectors = <<[name |-> 1, size |-> Len(df)]>>
    /\ i = 0
    /\ col_1 = pal_start + 1
    /\ col_2 = 0
    /\ col_3 = (IF fn = "drivers" THEN 0 ELSE pal_start + 1)
    /\ col_pal = 0
    /\ LET a == Track("A", 1, col_1, ColorCycler(col_1), "", -1)
           b == Track("B", 1, col_3, ColorCycler(col_3), "", Len(df))
       IN IF fn = "drivers"
          THEN /\ tracks = <<a>>
               /\ trackVar = [Unbound EXCEPT !["track1"] = <<a>>]
               /\ glyphs = <<Glyph("A", a, 96)>>
          ELSE /\ tracks = <<a, b>>
               /\ trackVar = [Unbound EXCEPT !["track1"] = <<b>>]
               /\ glyphs = <<Glyph("A", a, 96), Glyph("B", b, 86)>>
    /\ rounded = 0
    /\ yaxis = <<>>
    /\ legends = <<>>
    /\ files = 0

NextAxis ==
    \/ ComputeMax
    \/ ComputeMin
    \/ DriversRingB
    \/ HlaRingC

SpecAxis == InitAxis /\ [][NextAxis]_vars

---------------------------------------------------------------------------
(* Properties *)

RECURSIVE SumSizes(_)
SumSizes(s) == IF s = <<>> THEN 0 ELSE s[1].size + SumSizes(Tail(s))
RingTracks(r) == SelectSeq(tracks, LAMBDA t : t.ring = r)
RingDone(r) == Len(RingTracks(r)) = Len(sectors)
\* The sector mapping exists and the call has not failed.
Built == pc \in {"layout", "ringA", "ringB", "axis", "ringC", "legends", "plot", "save", "done"}
\* The call has passed the step that computes the axis bound.
AxisComputed(f) ==
    /\ fn = f
    /\ \/ pc \in {"ringC", "legends", "plot", "save", "done"}
       \/ pc = "ringB" /\ f = "drivers"
ColMax == Max({df[k].val : k \in DOMAIN df})
ColMin == Min({df[k].val : k \in DOMAIN df})
PresentRows == {k \in DOMAIN df : df[k].cat # NaN}
RowsOf(c) == {k \in DOMAIN df : df[k].cat = c}

\* C1: the output file is written at most once, only by the last step and
\* only after each of the three rings has a track for every sector; a call
\* that reaches the end has written it once; a call that failed has written
\* nothing.
C1_WriteOnceAtEnd ==
    /\ files <= 1
    /\ files = 1 =>
         /\ pc = "done"
         /\ failure = ""
         /\ Len(sectors) >= 1
         /\ RingDone("A") /\ RingDone("B") /\ RingDone("C")
         /\ legends # <<>>
    /\ pc = "done" => files = 1
    /\ pc = "failed" => files = 0
\* A call that failed in ring C, with rings A and B drawn for every sector.
C1_Witness ==
    /\ pc = "failed"
    /\ Len(sectors) >= 2
    /\ RingDone("A") /\ RingDone("B")
    /\ Len(RingTracks("C")) >= 1
    /\ files = 0

\* C2 as stated: one sector per distinct category value, each sized by its
\* number of rows (at least 1), the sizes summing to the table's row count,
\* and each ring filtering as many rows for a sector as its size.
C2_Original ==
    Built =>
        /\ {sectors[k].name : k \in DOMAIN sectors} = {df[k].cat : k \in PresentRows}
        /\ \A a, b \in DOMAIN sectors : sectors[a].name = sectors[b].name => a = b
        /\ \A k \in DOMAIN sectors :
              sectors[k].size >= 1 /\ sectors[k].size = Cardinality(RowsOf(sectors[k].name))
        /\ SumSizes(sectors) = Len(df)
        /\ \A k \in DOMAIN tracks : tracks[k].nrows # -1 => tracks[k].nrows = tracks[k].size
\* C2, amended: one sector per distinct category value that is not missing,
\* each sized by its number of rows (at least 1); the sizes sum to the number
\* of rows whose category cell is not missing; each ring filters as many rows
\* for a sector as its size.
C2_SectorSizes ==
    Built =>
        /\ {sectors[k].name : k \in DOMAIN sectors} = {df[k].cat : k \in PresentRows}
        /\ \A a, b \in DOMAIN sectors : sectors[a].name = sectors[b].name => a = b
        /\ \A k \in DOMAIN sectors :
              sectors[k].size >= 1 /\ sectors[k].size = Cardinality(RowsOf(sectors[k].name))
        /\ SumSizes(sectors) = Cardinality(PresentRows)
        /\ \A k \in DOMAIN tracks : tracks[k].nrows # -1 => tracks[k].nrows = tracks[k].size
\* A finished call on a table with a missing category cell and two sectors.
C2_Witness ==
    /\ pc = "done"
    /\ Len(sectors) >= 2
    /\ Cardinality(PresentRows) < Len(df)

\* Ring r has visited the sectors in layout order so far.
InLayoutOrder(r) ==
    \A k \in DOMAIN RingTracks(r) :
        RingTracks(r)[k].pos = k /\ RingTracks(r)[k].sector = sectors[k].name
\* C3 as stated: the sectors are laid out, and visited by every ring loop, in
\* the order in which their categories first appear in the rows.
C3_Original ==
    Built =>
        /\ \A a, b \in DOMAIN sectors :
              a < b => Min(RowsOf(sectors[a].name)) < Min(RowsOf(sectors[b].name))
        /\ InLayoutOrder("A") /\ InLayoutOrder("B") /\ InLayoutOrder("C")
\* C3, amended: the sectors are laid out, and visited by every ring loop, in
\* order of row count, largest first.
C3_LargestFirst ==
    Built =>
        /\ \A a, b \in DOMAIN sectors : a < b => sectors[a].size >= sectors[b].size
        /\ InLayoutOrder("A") /\ InLayoutOrder("B") /\ InLayoutOrder("C")
\* A finished call whose first sector is a category that appears later in the
\* rows than the second sector's.
C3_Witness ==
    /\ pc = "done"
    /\ Len(sectors) >= 2
    /\ Min(RowsOf(sectors[1].name)) > Min(RowsOf(sectors[2].name))

\* C4 as stated: the heatmap ring takes the colour scale at index (cursor
\* modulo 7) of the 7-entry list, and no cursor value makes the call fail.
C4_PaletteWraps ==
    /\ failure # "IndexError"
    /\ \A k \in DOMAIN tracks :
          tracks[k].cmap # "" => tracks[k].cmap = pal_list[(tracks[k].col % 7) + 1]

\* C5 as stated: roundedMax is a non-negative multiple of 10, at least the
\* column's maximum, and 0 only when no frequency value is above 0.
C5_Original ==
    AxisComputed("drivers") =>
        /\ rounded >= 0
        /\ rounded % 10 = 0
        /\ rounded >= ColMax
        /\ rounded = 0 => ColMax <= 0
\* C5, amended: roundedMax is the least multiple of 10 that is at least the
\* column's maximum; it is non-negative exactly when that maximum is above -10
\* and 0 exactly when that maximum is in -9..0.
C5_RoundedMax ==
    AxisComputed("drivers") =>
        /\ rounded % 10 = 0
        /\ rounded >= ColMax
        /\ rounded < ColMax + 10
        /\ rounded >= 0 <=> ColMax > -10
        /\ rounded = 0 <=> (-10 < ColMax /\ ColMax <= 0)
\* The bound computed for a column whose values are all below -10.
C5_Witness ==
    /\ AxisComputed("drivers")
    /\ ColMax < -10
    /\ rounded < 0

\* C6 as stated: vmin is a non-positive multiple of 10, at most the column's
\* minimum, so the axis range [vmin, 0] is not inverted.
C6_Original ==
    AxisComputed("hla") =>
        /\ rounded <= 0
        /\ rounded % 10 = 0
        /\ rounded <= ColMin
\* C6, amended: vmin is the greatest multiple of 10 that is at most the
\* column's minimum; it is non-positive, and the axis range [vmin, 0] not
\* inverted, exactly when that minimum is below 10.
C6_RoundedMin ==
    AxisComputed("hla") =>
        /\ rounded % 10 = 0
        /\ rounded <= ColMin
        /\ rounded > ColMin - 10
        /\ rounded <= 0 <=> ColMin < 10
\* The bound computed for a column whose values are all 10 or more.
C6_Witness ==
    /\ AxisComputed("hla")
    /\ ColMin >= 10
    /\ rounded > 0

\* The y axis of plot_circos_hla's ring C, set on a negative multiple of 10.
HlaAxisSet ==
    /\ fn = "hla"
    /\ yaxis # <<>>
    /\ yaxis[1].vmin < 0
    /\ yaxis[1].vmin % 10 = 0
Increasing(s) == \A a, b \in DOMAIN s : a < b => s[a] < s[b]
Decreasing(s) == \A a, b \in DOMAIN s : a < b => s[a] > s[b]
\* C9 as stated: the tick positions are [0, vmin/2, vmin], decreasing, while
\* the labels come out in increasing order and do not match the positions
\* element by element.
C9_Original ==
    HlaAxisSet =>
        /\ yaxis[1].ticks = <<0, yaxis[1].vmin \div 2, yaxis[1].vmin>>
        /\ Decreasing(yaxis[1].ticks)
        /\ Increasing(yaxis[1].labels)
        /\ yaxis[1].labels # yaxis[1].ticks
\* C9, amended: the tick positions are [0, vmin/2, vmin], decreasing, and the
\* labels spell exactly these three numbers in the same, decreasing, order:
\* each label matches the position it is put at.
C9_LabelsMatchTicks ==
    HlaAxisSet =>
        /\ yaxis[1].ticks = <<0, yaxis[1].vmin \div 2, yaxis[1].vmin>>
        /\ Decreasing(yaxis[1].ticks)
        /\ Len(yaxis[1].labels) = 3
        /\ Decreasing(yaxis[1].labels)
        /\ yaxis[1].labels = yaxis[1].ticks
\* The y axis set with vmin = -20.
C9_Witness ==
    /\ HlaAxisSet
    /\ yaxis[1].vmin = -20
    /\ yaxis[1].labels = <<0, -10, -20>>

\* The tracks whose colour comes from the palette cursor.
Coloured == {k \in DOMAIN tracks : tracks[k].color # -1}
\* C7: at every sector position, the rings drawn with the palette cursor
\* (rings A and B of plot_circos; rings A, B and C of plot_circos_hla) use the
\* same cursor value and the same colour.
C7_RingsShareColour ==
    \A a, b \in Coloured :
        tracks[a].pos = tracks[b].pos =>
            /\ tracks[a].col = tracks[b].col
            /\ tracks[a].color = tracks[b].color
            /\ tracks[a].sector = tracks[b].sector
\* A finished call with two sectors or more: every coloured ring has drawn
\* every sector.
C7_Witness ==
    /\ pc = "done"
    /\ Len(sectors) >= 2
    /\ \E a, b \in Coloured :
          /\ tracks[a].ring = "A" /\ tracks[b].ring = "B"
          /\ tracks[a].pos = 2 /\ tracks[b].pos = 2

RingA_Tracks == {k \in DOMAIN tracks : tracks[k].ring = "A"}
\* C8 as stated: in ring A every sector's colour differs from every other
\* sector's of the call, and each sector's colour is fixed by the start offset,
\* its position and the palette.
C8_Original ==
    /\ \A a, b \in RingA_Tracks :
          a # b => tracks[a].color # tracks[b].color
    /\ \A a \in RingA_Tracks :
          tracks[a].color = (pal_start + tracks[a].pos) % palN
\* C8, amended: in ring A the k-th sector gets colour (start offset + k)
\* modulo N of the palette's N colours, so two sectors get the same colour
\* exactly when their positions differ by a multiple of N, and the sectors'
\* colours are pairwise distinct exactly when there are at most N sectors;
\* each sector's colour is fixed by the start offset, its position and the
\* palette.
C8_ColourByPosition ==
    /\ \A a \in RingA_Tracks :
          /\ tracks[a].color \in 0..(palN - 1)
          /\ tracks[a].color = (pal_start + tracks[a].pos) % palN
    /\ \A a, b \in RingA_Tracks :
          tracks[a].color = tracks[b].color
              <=> (tracks[a].pos - tracks[b].pos) % palN = 0
    /\ RingDone("A") =>
          ((\A a, b \in RingA_Tracks : a # b => tracks[a].color # tracks[b].color)
              <=> Len(sectors) <= palN)
\* Ring A drawn for more sectors than the palette has colours: the first and
\* the third sector share a colour.
C8_Witness ==
    /\ RingDone("A")
    /\ Len(sectors) > palN
    /\ \E a, b \in RingA_Tracks :
          a # b /\ tracks[a].color = tracks[b].color

GlyphTexts == IF fn = "drivers" THEN {"A", "B", "C"} ELSE {"A", "B", "C", "D"}
\* The ring whose loop a glyph follows.
GlyphRing(text) == IF text = "D" THEN "C" ELSE text
Emitted(text) == {k \in DOMAIN glyphs : glyphs[k].text = text}
====
